---- MODULE Spec2Model ----
(***************************************************************************)
(* A circular genome with transposable elements (src/src/genome.py).       *)
(*                                                                         *)
(* Two realisations of the abstract class Genome are modelled side by      *)
(* side: ListGenome (Python lists) and LinkedListGenome (index-linked      *)
(* arena).  Every call is applied to both objects.  Python lists are       *)
(* 0-indexed, TLA+ sequences 1-indexed: Python's s[i] is s[i+1] here.      *)
(* A raised exception is recorded as the call's result; the fields the     *)
(* method had already assigned before raising keep their new values, as    *)
(* they do in Python.                                                      *)
(***************************************************************************)
EXTENDS Integers, Sequences, FiniteSets, TLC

\* Bounds of the explored inputs.
MaxN == 1
MaxPos == 2
MaxLen == 2
MaxTe == 2
MaxOff == 2
MaxCalls == 3
MaxNeg == 1

VARIABLES
    lg,       \* the ListGenome object: lst, ID, active_lst, count
    llg,      \* the LinkedListGenome object: lst, index_next, ID, active_lst, count
    pre_lg,   \* lg as it was before the last call
    pre_llg,  \* llg as it was before the last call
    call,     \* the last call: method, arguments, result on each object
    ncalls    \* number of calls made so far

vars == <<lg, llg, pre_lg, pre_llg, call, ncalls>>

----------------------------------------------------------------------------
\* Results of a call.

\* A method returned the integer v.
RetId(v) == [kind |-> "id", val |-> v]

\* A method returned None.
RetNone == [kind |-> "None", val |-> 0]

\* A method raised the exception named e.
Raise(e) == [kind |-> e, val |-> 0]

\* A loop of the method never exits.
Diverges == [kind |-> "Diverges", val |-> 0]

----------------------------------------------------------------------------
\* Python list helpers.

Range(s) == {s[i] : i \in 1..Len(s)}

\* k appends of x to an empty list; range(k) is empty for k <= 0.
Repeat(x, k) == [j \in 1..k |-> x]

\* list.remove(v): drops the first occurrence of v.
Remove(s, v) ==
    LET first == CHOOSE i \in 1..Len(s) :
                     s[i] = v /\ \A j \in 1..(i-1) : s[j] # v
    IN SubSeq(s, 1, first - 1) \o SubSeq(s, first + 1, Len(s))

\* for i in range(len(ID)): if ID[i] == te: lst[i] = "x"
Flip(lst, ID, te) ==
    [i \in 1..Len(lst) |-> IF i <= Len(ID) /\ ID[i] = te THEN "x" ELSE lst[i]]

\* 0-based index of the first entry of s equal to v, -1 when there is none.
FirstIndex(s, v) ==
    IF v \in Range(s)
    THEN (CHOOSE i \in 1..Len(s) : s[i] = v /\ \A j \in 1..(i-1) : s[j] # v) - 1
    ELSE -1

\* Number of entries of s equal to v.
CountOf(s, v) == Cardinality({i \in 1..Len(s) : s[i] = v})

----------------------------------------------------------------------------
\* ListGenome

\* __init__ with the loop running over range(n - 1).
ListGenome_OffByOne(n) ==
    [lst |-> Repeat("-", n - 1), ID |-> Repeat(0, n - 1), active_lst |-> <<>>,
     count |-> 0]

ListGenome(n) ==
    [lst |-> Repeat("-", n), ID |-> Repeat(0, n), active_lst |-> <<>>, count |-> 0]

\* disable_te with the scan stopping at the first position owned by te.
LG_disable_te_FirstOnly(g, te) ==
    LET first == FirstIndex(g.ID, te)
        flipped == IF first = -1 THEN g ELSE [g EXCEPT !.lst[first + 1] = "x"]
    IN IF te \in Range(g.active_lst)
       THEN [g |-> [flipped EXCEPT !.active_lst = Remove(@, te)], ret |-> RetNone]
       ELSE [g |-> flipped, ret |-> Raise("ValueError")]

LG_disable_te(g, te) ==
    LET flipped == [g EXCEPT !.lst = Flip(g.lst, g.ID, te)]
    IN IF te \in Range(g.active_lst)
       THEN [g |-> [flipped EXCEPT !.active_lst = Remove(@, te)], ret |-> RetNone]
       ELSE [g |-> flipped, ret |-> Raise("ValueError")]

\* insert_te with one statement changed, selected by change:
\*   "reuse"       the id is len(active_lst) + 1 instead of count + 1,
\*   "prepend"     the id is put at the front of active_lst,
\*   "nocollision" the collision test is left out.
LG_insert_te_Changed(g, pos, length, change) ==
    LET N == Len(g.lst)
        p == IF pos > N THEN pos % N ELSE pos
        g1 == [g EXCEPT !.count = IF change = "reuse"
                                  THEN Len(g.active_lst) + 1 ELSE @ + 1]
    IN IF p >= N \/ p < -N
       THEN [g |-> g1, ret |-> Raise("IndexError")]
       ELSE LET idx == IF p < 0 THEN p + N ELSE p
                d == IF g1.lst[idx + 1] = "A" /\ change # "nocollision"
                     THEN LG_disable_te(g1, g1.ID[idx + 1])
                     ELSE [g |-> g1, ret |-> RetNone]
                g2 == d.g
            IN IF d.ret.kind # "None"
               THEN d
               ELSE [g |-> [g2 EXCEPT
                              !.lst = SubSeq(g2.lst, 1, idx) \o Repeat("A", length)
                                          \o SubSeq(g2.lst, idx + 1, N),
                              !.ID = SubSeq(g2.ID, 1, idx) \o Repeat(g2.count, length)
                                          \o SubSeq(g2.ID, idx + 1, N),
                              !.active_lst = IF change = "prepend"
                                             THEN <<g2.count>> \o @
                                             ELSE Append(@, g2.count)],
                     ret |-> RetId(g2.count)]

LG_insert_te_ReuseId(g, pos, length) == LG_insert_te_Changed(g, pos, length, "reuse")

LG_insert_te_Prepend(g, pos, length) == LG_insert_te_Changed(g, pos, length, "prepend")

LG_insert_te_NoCollision(g, pos, length) ==
    LG_insert_te_Changed(g, pos, length, "nocollision")

LG_insert_te(g, pos, length) ==
    LET N == Len(g.lst)
        p == IF pos > N THEN pos % N ELSE pos
        g1 == [g EXCEPT !.count = @ + 1]
    IN IF p >= N \/ p < -N
       THEN [g |-> g1, ret |-> Raise("IndexError")]
       ELSE LET idx == IF p < 0 THEN p + N ELSE p
                d == IF g1.lst[idx + 1] = "A"
                     THEN LG_disable_te(g1, g1.ID[idx + 1])
                     ELSE [g |-> g1, ret |-> RetNone]
                g2 == d.g
            IN IF d.ret.kind # "None"
               THEN d
               ELSE [g |-> [g2 EXCEPT
                              !.lst = SubSeq(g2.lst, 1, idx) \o Repeat("A", length)
                                          \o SubSeq(g2.lst, idx + 1, N),
                              !.ID = SubSeq(g2.ID, 1, idx) \o Repeat(g2.count, length)
                                          \o SubSeq(g2.ID, idx + 1, N),
                              !.active_lst = Append(@, g2.count)],
                     ret |-> RetId(g2.count)]

LG_copy_te(g, te, offset) ==
    LET index_ID == FirstIndex(g.ID, te)
        len_ID == CountOf(g.ID, te)
    IN IF index_ID = -1
       THEN [g |-> g, ret |-> Raise("UnboundLocalError")]
       ELSE IF g.lst[index_ID + 1] = "x"
            THEN [g |-> g, ret |-> RetNone]
            ELSE LG_insert_te(g, index_ID + offset, len_ID)

LG_active_tes(g) == g.active_lst

LG_len(g) == Len(g.lst)

LG_str(g) == g.lst

----------------------------------------------------------------------------
\* LinkedListGenome

LinkedListGenome(n) ==
    [lst |-> Repeat("-", n),
     index_next |-> [i \in 1..n |-> i % n],
     ID |-> Repeat(0, n),
     active_lst |-> <<>>,
     count |-> 0]

LLG_disable_te(g, te) ==
    LET flipped == [g EXCEPT !.lst = Flip(g.lst, g.ID, te)]
    IN IF te \in Range(g.active_lst)
       THEN [g |-> [flipped EXCEPT !.active_lst = Remove(@, te)], ret |-> RetNone]
       ELSE [g |-> flipped, ret |-> Raise("ValueError")]

\* for _ in range(k): i = index_next[i].  -1 when index_next[i] is out of range.
RECURSIVE Walk(_, _, _)
Walk(index_next, i, k) ==
    IF k <= 0 THEN i
    ELSE IF i >= Len(index_next) THEN -1
    ELSE Walk(index_next, index_next[i + 1], k - 1)

\* insert_te without the assignment index_next[i] = len(lst): the new slots
\* are appended but the predecessor keeps its old successor.
LLG_insert_te_NoRelink(g, pos, length) ==
    LET g1 == [g EXCEPT !.count = @ + 1]
        i == Walk(g.index_next, 0, pos - 1)
    IN IF i = -1 \/ i >= Len(g.lst)
       THEN [g |-> g1, ret |-> Raise("IndexError")]
       ELSE LET d == IF g1.lst[i + 1] = "A"
                     THEN LLG_disable_te(g1, g1.ID[i + 1])
                     ELSE [g |-> g1, ret |-> RetNone]
                g2 == d.g
                M == Len(g2.index_next)
            IN IF d.ret.kind # "None"
               THEN d
               ELSE IF i >= M
               THEN [g |-> g2, ret |-> Raise("IndexError")]
               ELSE LET old_next == g2.index_next[i + 1]
                    IN [g |-> [g2 EXCEPT
                                 !.index_next =
                                     @ \o [j \in 1..(length - 1) |-> M + j]
                                       \o <<old_next>>,
                                 !.lst = @ \o Repeat("A", length),
                                 !.ID = @ \o Repeat(g2.count, length),
                                 !.active_lst = Append(@, g2.count)],
                        ret |-> RetId(g2.count)]

LLG_insert_te(g, pos, length) ==
    LET g1 == [g EXCEPT !.count = @ + 1]
        i == Walk(g.index_next, 0, pos - 1)
    IN IF i = -1 \/ i >= Len(g.lst)
       THEN [g |-> g1, ret |-> Raise("IndexError")]
       ELSE LET d == IF g1.lst[i + 1] = "A"
                     THEN LLG_disable_te(g1, g1.ID[i + 1])
                     ELSE [g |-> g1, ret |-> RetNone]
                g2 == d.g
                M == Len(g2.index_next)
            IN IF d.ret.kind # "None"
               THEN d
               ELSE IF i >= M
               THEN [g |-> g2, ret |-> Raise("IndexError")]
               ELSE LET old_next == g2.index_next[i + 1]
                    IN [g |-> [g2 EXCEPT
                                 !.index_next =
                                     [@ EXCEPT ![i + 1] = Len(g2.lst)]
                                        \o [j \in 1..(length - 1) |-> M + j]
                                        \o <<old_next>>,
                                 !.lst = @ \o Repeat("A", length),
                                 !.ID = @ \o Repeat(g2.count, length),
                                 !.active_lst = Append(@, g2.count)],
                        ret |-> RetId(g2.count)]

\* The two while loops of copy_te: follow index_next from slot i while slot i
\* is (want = TRUE) or is not (want = FALSE) owned by te, counting the steps.
\* A walk over Len(index_next) slots that has not stopped after fuel steps is
\* in a cycle and never stops.
RECURSIVE RingScan(_, _, _, _, _, _)
RingScan(g, te, want, i, count, fuel) ==
    IF i >= Len(g.ID) THEN [kind |-> "IndexError", i |-> i, count |-> count]
    ELSE IF (g.ID[i + 1] = te) # want THEN [kind |-> "ok", i |-> i, count |-> count]
    ELSE IF i >= Len(g.index_next) THEN [kind |-> "IndexError", i |-> i, count |-> count]
    ELSE IF fuel = 0 THEN [kind |-> "Diverges", i |-> i, count |-> count]
    ELSE RingScan(g, te, want, g.index_next[i + 1], count + 1, fuel - 1)

\* copy_te without the test of te against active_lst.
LLG_copy_te_NoGuard(g, te, offset) ==
    LET fuel == Len(g.index_next) + 1
        s1 == RingScan(g, te, FALSE, 0, 0, fuel)
        te_pos == s1.count
        s2 == RingScan(g, te, TRUE, s1.i, 0, fuel)
    IN IF s1.kind # "ok"
       THEN [g |-> g, ret |-> [kind |-> s1.kind, val |-> 0]]
       ELSE IF s2.kind # "ok"
       THEN [g |-> g, ret |-> [kind |-> s2.kind, val |-> 0]]
       ELSE LLG_insert_te(g, Len(g.index_next) + (te_pos + offset), s2.count)

LLG_copy_te(g, te, offset) ==
    IF te \notin Range(g.active_lst)
    THEN [g |-> g, ret |-> RetNone]
    ELSE LET fuel == Len(g.index_next) + 1
             s1 == RingScan(g, te, FALSE, 0, 0, fuel)
             te_pos == s1.count
             s2 == RingScan(g, te, TRUE, s1.i, 0, fuel)
         IN IF s1.kind # "ok"
            THEN [g |-> g, ret |-> [kind |-> s1.kind, val |-> 0]]
            ELSE IF s2.kind # "ok"
            THEN [g |-> g, ret |-> [kind |-> s2.kind, val |-> 0]]
            ELSE LLG_insert_te(g, Len(g.index_next) + (te_pos + offset), s2.count)

LLG_active_tes(g) == g.active_lst

LLG_len(g) == Len(g.lst)

\* __str__: len(lst) symbols collected along index_next from slot 0.  An
\* out-of-range slot index raises IndexError, shown as that one entry.
RECURSIVE StrWalk(_, _, _)
StrWalk(g, i, k) ==
    IF k = 0 THEN <<>>
    ELSE IF i >= Len(g.lst) \/ i >= Len(g.index_next) THEN <<"IndexError">>
    ELSE <<g.lst[i + 1]>> \o StrWalk(g, g.index_next[i + 1], k - 1)

LLG_str(g) == StrWalk(g, 0, Len(g.lst))

----------------------------------------------------------------------------
\* The caller: one genome of each class, every call made on both.

Init ==
    \E n \in 1..MaxN :
        /\ lg = ListGenome(n)
        /\ llg = LinkedListGenome(n)
        /\ pre_lg = ListGenome(n)
        /\ pre_llg = LinkedListGenome(n)
        /\ call = [op |-> "init", a1 |-> n, a2 |-> 0,
                   ret_lg |-> RetNone, ret_llg |-> RetNone]
        /\ ncalls = 0

Apply(op, a1, a2, a, b) ==
    /\ lg' = a.g
    /\ llg' = b.g
    /\ pre_lg' = lg
    /\ pre_llg' = llg
    /\ call' = [op |-> op, a1 |-> a1, a2 |-> a2, ret_lg |-> a.ret, ret_llg |-> b.ret]
    /\ ncalls' = ncalls + 1

InsertTe ==
    /\ ncalls < MaxCalls
    /\ \E pos \in 0..MaxPos, length \in 1..MaxLen :
           Apply("insert_te", pos, length,
                 LG_insert_te(lg, pos, length), LLG_insert_te(llg, pos, length))

CopyTe ==
    /\ ncalls < MaxCalls
    /\ \E te \in 0..MaxTe, offset \in (-MaxOff)..MaxOff :
           Apply("copy_te", te, offset,
                 LG_copy_te(lg, te, offset), LLG_copy_te(llg, te, offset))

DisableTe ==
    /\ ncalls < MaxCalls
    /\ \E te \in 0..MaxTe :
           Apply("disable_te", te, 0,
                 LG_disable_te(lg, te), LLG_disable_te(llg, te))

\* insert_te called with any length, zero and negative included.
InsertTeAny ==
    /\ ncalls < MaxCalls
    /\ \E pos \in 0..MaxPos, length \in (-MaxNeg)..MaxLen :
           Apply("insert_te", pos, length,
                 LG_insert_te(lg, pos, length), LLG_insert_te(llg, pos, length))

Next == InsertTe \/ CopyTe \/ DisableTe

Spec == Init /\ [][Next]_vars

NextAny == InsertTeAny \/ CopyTe \/ DisableTe

\* The caller that does not keep lengths positive.
SpecAny == Init /\ [][NextAny]_vars

----------------------------------------------------------------------------
\* Vocabulary of the properties.

\* Owner ids in rendering order: the walk of __str__, reading ID instead of lst.
RECURSIVE OwnWalk(_, _, _)
OwnWalk(g, i, k) ==
    IF k = 0 THEN <<>>
    ELSE IF i >= Len(g.ID) \/ i >= Len(g.index_next) THEN <<-1>>
    ELSE <<g.ID[i + 1]>> \o OwnWalk(g, g.index_next[i + 1], k - 1)

LG_owners(g) == g.ID

LLG_owners(g) == OwnWalk(g, 0, Len(g.lst))

\* Python's s[i] for 0 <= i < len(s).
At(s, i) == s[i + 1]

\* Number of consecutive positions owned by te, counted circularly from its
\* first position in rendering order.
RunLength(own, te) ==
    LET N == Len(own)
        p == FirstIndex(own, te)
    IN CHOOSE k \in 0..N :
           /\ \A j \in 0..(k - 1) : At(own, (p + j) % N) = te
           /\ k = N \/ At(own, (p + k) % N) # te

\* s without the entries equal to v, order kept.
Without(s, v) == SelectSeq(s, LAMBDA x : x # v)

\* A symbol of the old rendering as it may show after a call that disables
\* TEs: unchanged, or an 'A' turned into 'x'.
Kept(old, new) == new = old \/ (old = "A" /\ new = "x")

\* new is old with L symbols 'A' spliced in before index pos.
InsertedAt(old, new, pos, L) ==
    /\ Len(new) = Len(old) + L
    /\ \A j \in 1..Len(new) :
          /\ (j <= pos => Kept(old[j], new[j]))
          /\ (pos < j /\ j <= pos + L => new[j] = "A")
          /\ (j > pos + L => Kept(old[j - L], new[j]))

IsInsert == call.op = "insert_te"
IsCopy == call.op = "copy_te"
IsDisable == call.op = "disable_te"

----------------------------------------------------------------------------
\* C1: cross-implementation equivalence.  After every call the ListGenome and
\* the LinkedListGenome render the same string, list the same active ids,
\* have the same length, and the call returned the same value on both.
C1_Equivalence ==
    /\ LG_str(lg) = LLG_str(llg)
    /\ LG_active_tes(lg) = LLG_active_tes(llg)
    /\ LG_len(lg) = LLG_len(llg)
    /\ call.ret_lg = call.ret_llg

\* C2: insert_te(pos, L) with 0 <= pos < N and L >= 1 makes the length N + L
\* and puts L symbols 'A' at indices pos .. pos+L-1 of the rendering, the old
\* symbols staying in their order before and after the run.
C2_LG_InsertPlacement ==
    (IsInsert /\ call.a1 < LG_len(pre_lg) /\ call.a2 >= 1) =>
        /\ LG_len(lg) = LG_len(pre_lg) + call.a2
        /\ InsertedAt(LG_str(pre_lg), LG_str(lg), call.a1, call.a2)

C2_LLG_InsertPlacement ==
    (IsInsert /\ call.a1 < LLG_len(pre_llg) /\ call.a2 >= 1) =>
        /\ LLG_len(llg) = LLG_len(pre_llg) + call.a2
        /\ InsertedAt(LLG_str(pre_llg), LLG_str(llg), call.a1, call.a2)

C2_InsertPlacement == C2_LG_InsertPlacement /\ C2_LLG_InsertPlacement

\* C3: collision rule.  If the position at index pos mod N renders 'A' before
\* insert_te(pos, L), then after the call its owner is not in active_tes()
\* and every position of that owner renders 'x'.
Collided(oldStr, oldOwn, newStr, newOwn, newActive, pos) ==
    LET k == pos % Len(oldStr)
        te == At(oldOwn, k)
    IN At(oldStr, k) = "A" =>
          /\ te \notin Range(newActive)
          /\ \A j \in 1..Len(newStr) : newOwn[j] = te => newStr[j] = "x"

C3_LG_Collision ==
    IsInsert => Collided(LG_str(pre_lg), LG_owners(pre_lg),
                         LG_str(lg), LG_owners(lg), LG_active_tes(lg), call.a1)

C3_LLG_Collision ==
    IsInsert => Collided(LLG_str(pre_llg), LLG_owners(pre_llg),
                         LLG_str(llg), LLG_owners(llg), LLG_active_tes(llg), call.a1)

C3_Collision == C3_LG_Collision /\ C3_LLG_Collision

\* C4: frame of insert_te.  insert_te(pos, L) disables no TE other than the
\* owner of the position at index pos mod N; if that position does not render
\* 'A', active_tes() afterwards is the old list with the new id appended and
\* no 'A' has turned into 'x'.
SoleCollision(oldStr, oldOwn, oldActive, newStr, newActive, pos, ret) ==
    LET k == pos % Len(oldStr)
    IN /\ \A te \in Range(oldActive) :
              te \notin Range(newActive) => te = At(oldOwn, k)
       /\ At(oldStr, k) # "A" =>
              /\ ret.kind = "id"
              /\ newActive = Append(oldActive, ret.val)
              /\ CountOf(newStr, "x") = CountOf(oldStr, "x")

C4_LG_SoleCollision ==
    IsInsert => SoleCollision(LG_str(pre_lg), LG_owners(pre_lg), LG_active_tes(pre_lg),
                              LG_str(lg), LG_active_tes(lg), call.a1, call.ret_lg)

C4_LLG_SoleCollision ==
    IsInsert => SoleCollision(LLG_str(pre_llg), LLG_owners(pre_llg), LLG_active_tes(pre_llg),
                              LLG_str(llg), LLG_active_tes(llg), call.a1, call.ret_llg)

C4_SoleCollision == C4_LG_SoleCollision /\ C4_LLG_SoleCollision

\* C5: position normalization.  insert_te(pos, L) for any pos >= 0 raises no
\* error and leaves the genome, and returns the id, that insert_te(pos mod N, L)
\* would have.
C5_LG_Normalized ==
    IsInsert =>
        /\ call.ret_lg.kind = "id"
        /\ [g |-> lg, ret |-> call.ret_lg]
               = LG_insert_te(pre_lg, call.a1 % LG_len(pre_lg), call.a2)

C5_LLG_Normalized ==
    IsInsert =>
        /\ call.ret_llg.kind = "id"
        /\ [g |-> llg, ret |-> call.ret_llg]
               = LLG_insert_te(pre_llg, call.a1 % LLG_len(pre_llg), call.a2)

C5_Normalized == C5_LG_Normalized /\ C5_LLG_Normalized

\* C6: copy_te(te, offset) for te not in active_tes() returns None, raises
\* nothing and leaves the length, the rendering, active_tes() and the next id
\* unchanged.
C6_LG_CopyInactive ==
    (IsCopy /\ call.a1 \notin Range(LG_active_tes(pre_lg))) =>
        call.ret_lg = RetNone /\ lg = pre_lg

C6_LLG_CopyInactive ==
    (IsCopy /\ call.a1 \notin Range(LLG_active_tes(pre_llg))) =>
        call.ret_llg = RetNone /\ llg = pre_llg

C6_CopyInactive == C6_LG_CopyInactive /\ C6_LLG_CopyInactive

\* C7: copy_te(te, offset) for an active te first found at index p with run
\* length L in a genome of length N returns a fresh id, grows the length to
\* N + L and places L 'A' positions of the new id from index (p + offset) mod N;
\* te stays active unless the position at (p + offset) mod N was its own.
Copied(oldOwn, oldActive, newStr, newOwn, newActive, te, offset, ret) ==
    LET N == Len(oldOwn)
        p == FirstIndex(oldOwn, te)
        L == RunLength(oldOwn, te)
        t == (p + offset) % N
    IN /\ ret.kind = "id"
       /\ ret.val \notin Range(oldOwn) \cup Range(oldActive)
       /\ Len(newStr) = N + L
       /\ \A j \in 0..(L - 1) : At(newOwn, t + j) = ret.val /\ At(newStr, t + j) = "A"
       /\ ret.val \in Range(newActive)
       /\ At(oldOwn, t) # te => te \in Range(newActive)

C7_LG_Copy ==
    (IsCopy /\ call.a1 \in Range(LG_active_tes(pre_lg))) =>
        Copied(LG_owners(pre_lg), LG_active_tes(pre_lg), LG_str(lg), LG_owners(lg),
               LG_active_tes(lg), call.a1, call.a2, call.ret_lg)

C7_LLG_Copy ==
    (IsCopy /\ call.a1 \in Range(LLG_active_tes(pre_llg))) =>
        Copied(LLG_owners(pre_llg), LLG_active_tes(pre_llg), LLG_str(llg), LLG_owners(llg),
               LLG_active_tes(llg), call.a1, call.a2, call.ret_llg)

C7_Copy == C7_LG_Copy /\ C7_LLG_Copy

\* C8: disable_te(te) for te not in active_tes() raises no error and leaves
\* the rendering, the length and active_tes() unchanged.
C8_LG_DisableInactive ==
    (IsDisable /\ call.a1 \notin Range(LG_active_tes(pre_lg))) =>
        /\ call.ret_lg = RetNone
        /\ LG_str(lg) = LG_str(pre_lg)
        /\ LG_active_tes(lg) = LG_active_tes(pre_lg)

C8_LLG_DisableInactive ==
    (IsDisable /\ call.a1 \notin Range(LLG_active_tes(pre_llg))) =>
        /\ call.ret_llg = RetNone
        /\ LLG_str(llg) = LLG_str(pre_llg)
        /\ LLG_active_tes(llg) = LLG_active_tes(pre_llg)

C8_DisableInactive == C8_LG_DisableInactive /\ C8_LLG_DisableInactive

\* C9: disable_te(te) for te in active_tes() turns every position owned by te
\* from 'A' to 'x', removes te from active_tes() and changes nothing else:
\* same length, same owners, every other position renders as before, the
\* other active ids keep their order.
Disabled(oldStr, oldOwn, oldActive, newStr, newOwn, newActive, te, ret) ==
    /\ ret = RetNone
    /\ Len(newStr) = Len(oldStr)
    /\ newOwn = oldOwn
    /\ \A j \in 1..Len(oldStr) :
          IF oldOwn[j] = te
          THEN oldStr[j] = "A" /\ newStr[j] = "x"
          ELSE newStr[j] = oldStr[j]
    /\ newActive = Without(oldActive, te)
    /\ Len(newActive) = Len(oldActive) - 1

C9_LG_Disable ==
    (IsDisable /\ call.a1 \in Range(LG_active_tes(pre_lg))) =>
        /\ Disabled(LG_str(pre_lg), LG_owners(pre_lg), LG_active_tes(pre_lg),
                    LG_str(lg), LG_owners(lg), LG_active_tes(lg), call.a1, call.ret_lg)
        /\ lg.count = pre_lg.count

C9_LLG_Disable ==
    (IsDisable /\ call.a1 \in Range(LLG_active_tes(pre_llg))) =>
        /\ Disabled(LLG_str(pre_llg), LLG_owners(pre_llg), LLG_active_tes(pre_llg),
                    LLG_str(llg), LLG_owners(llg), LLG_active_tes(llg), call.a1, call.ret_llg)
        /\ llg.count = pre_llg.count
        /\ llg.index_next = pre_llg.index_next

C9_Disable == C9_LG_Disable /\ C9_LLG_Disable

\* A TE of two positions, active on both genomes, was disabled while another
\* TE stays active on both.
C9_Witness ==
    /\ IsDisable
    /\ call.a1 \in Range(LG_active_tes(pre_lg)) \cap Range(LLG_active_tes(pre_llg))
    /\ CountOf(LG_owners(pre_lg), call.a1) = 2
    /\ CountOf(LLG_owners(pre_llg), call.a1) = 2
    /\ Len(LG_active_tes(lg)) = 1
    /\ Len(LLG_active_tes(llg)) = 1

\* C10: occupancy and active set agree.  A position holds 'A' iff its owner
\* is in active_tes(), 'x' iff its owner is a nonzero id not in active_tes(),
\* '-' iff it has no owner (id 0); every active id owns a position.
Consistent(g) ==
    /\ Len(g.lst) = Len(g.ID)
    /\ \A i \in 1..Len(g.lst) :
          /\ g.lst[i] = "A" <=> g.ID[i] \in Range(g.active_lst)
          /\ g.lst[i] = "x" <=> (g.ID[i] # 0 /\ g.ID[i] \notin Range(g.active_lst))
          /\ g.lst[i] = "-" <=> g.ID[i] = 0
    /\ \A te \in Range(g.active_lst) : te \in Range(g.ID)

C10_Consistency == Consistent(lg) /\ Consistent(llg)

\* C11: id issue.  The first id returned by insert_te or copy_te is 1, and
\* every returned id is greater than every id returned before it.  With
\* lengths >= 1 the ids returned so far are the nonzero owners in ID.
IssuedIds(g) == (Range(g.ID) \cup Range(g.active_lst)) \ {0}

FreshId(old, ret) ==
    ret.kind = "id" =>
        /\ \A te \in IssuedIds(old) : ret.val > te
        /\ IssuedIds(old) = {} => ret.val = 1

C11_LG_IdIssue == (IsInsert \/ IsCopy) => FreshId(pre_lg, call.ret_lg)

C11_LLG_IdIssue == (IsInsert \/ IsCopy) => FreshId(pre_llg, call.ret_llg)

C11_IdIssue == C11_LG_IdIssue /\ C11_LLG_IdIssue

\* C12: no reactivation.  An id that was issued and is no longer in
\* active_tes() is not in active_tes() after any further call, and none of
\* its positions renders 'A' again.
NoReactivation(old, new) ==
    \A te \in IssuedIds(old) \ Range(old.active_lst) :
        /\ te \notin Range(new.active_lst)
        /\ \A i \in 1..Len(new.ID) : new.ID[i] = te => new.lst[i] # "A"

C12_NoReactivation ==
    [][NoReactivation(lg, lg') /\ NoReactivation(llg, llg')]_vars

\* A call returned a new id on both genomes while each of them held a
\* disabled TE.
C12_Witness ==
    /\ call.ret_lg.kind = "id"
    /\ call.ret_llg.kind = "id"
    /\ IssuedIds(pre_lg) \ Range(pre_lg.active_lst) # {}
    /\ IssuedIds(pre_llg) \ Range(pre_llg.active_lst) # {}
    /\ "x" \in Range(lg.lst)
    /\ "x" \in Range(llg.lst)

\* C13: length validation.  insert_te(pos, length) with length <= 0 is
\* rejected with an error and leaves the genome unchanged: no id issued or
\* added to active_tes(), same length, same rendering.
Rejected(old, new, ret) ==
    /\ ret.kind \notin {"id", "None", "Diverges"}
    /\ new = old

C13_LG_LengthRejected ==
    (IsInsert /\ call.a2 <= 0) => Rejected(pre_lg, lg, call.ret_lg)

C13_LLG_LengthRejected ==
    (IsInsert /\ call.a2 <= 0) => Rejected(pre_llg, llg, call.ret_llg)

C13_LengthRejected == C13_LG_LengthRejected /\ C13_LLG_LengthRejected

\* C14: termination.  With lengths >= 1 no call runs forever: the last call
\* returned or raised on both genomes, the two ring walks of
\* LinkedListGenome.copy_te stop for every id copy_te would walk for, and the
\* walk of LinkedListGenome.__str__ ends with one symbol per slot.
WalksStop(g) ==
    \A te \in Range(g.active_lst) :
        LET fuel == Len(g.index_next) + 1
            s1 == RingScan(g, te, FALSE, 0, 0, fuel)
        IN /\ s1.kind = "ok"
           /\ RingScan(g, te, TRUE, s1.i, 0, fuel).kind = "ok"

C14_Termination ==
    /\ call.ret_lg.kind # "Diverges"
    /\ call.ret_llg.kind # "Diverges"
    /\ WalksStop(llg)
    /\ Len(LLG_str(llg)) = Len(llg.lst)
    /\ "IndexError" \notin Range(LLG_str(llg))

\* LinkedListGenome.copy_te walked past at least one slot to a TE of two
\* slots, counted its run and returned the id of the copy.
C14_Witness ==
    /\ IsCopy
    /\ call.ret_llg.kind = "id"
    /\ FirstIndex(LLG_owners(pre_llg), call.a1) >= 1
    /\ RunLength(LLG_owners(pre_llg), call.a1) = 2
    /\ LLG_len(llg) = LLG_len(pre_llg) + 2

\* C15: active_tes() lists the active ids in the order they were issued,
\* strictly ascending, without duplicates.
Ascending(s) == \A i, j \in 1..Len(s) : i < j => s[i] < s[j]

C15_ActiveOrder ==
    /\ Ascending(LG_active_tes(lg))
    /\ Ascending(LLG_active_tes(llg))

\* Two TEs are active on both genomes after an earlier one was disabled.
C15_Witness ==
    /\ Len(LG_active_tes(lg)) >= 2
    /\ Len(LLG_active_tes(llg)) >= 2
    /\ "x" \in Range(LG_str(lg))
    /\ "x" \in Range(LLG_str(llg))
    /\ 0 \notin Range(LG_active_tes(lg)) \cup Range(LLG_active_tes(llg))

\* C16: a freshly created genome of size n renders as n times '-', has
\* length n and an empty active_tes(), in both classes.
Fresh(str, len, active, n) ==
    /\ len = n
    /\ Len(str) = n
    /\ \A i \in 1..n : str[i] = "-"
    /\ active = <<>>

C16_Fresh ==
    call.op = "init" =>
        /\ Fresh(LG_str(lg), LG_len(lg), LG_active_tes(lg), call.a1)
        /\ Fresh(LLG_str(llg), LLG_len(llg), LLG_active_tes(llg), call.a1)

\* The largest genome of the run has just been created.
C16_Witness ==
    /\ call.op = "init"
    /\ call.a1 = MaxN
    /\ ncalls = 0

\* C17: ring invariant of LinkedListGenome.  lst, ID and index_next have the
\* same length, every index_next entry is a slot index, and following
\* index_next from slot 0 visits every slot exactly once before it is back at
\* slot 0, so that __str__ emits each slot's symbol once.
SingleRing(g) ==
    LET N == Len(g.lst)
    IN /\ Len(g.ID) = N
       /\ Len(g.index_next) = N
       /\ \A i \in 1..N : g.index_next[i] \in 0..(N - 1)
       /\ {Walk(g.index_next, 0, k) : k \in 0..(N - 1)} = 0..(N - 1)
       /\ Walk(g.index_next, 0, N) = 0

C17_Ring == SingleRing(llg)

\* Two insertions have been spliced into the ring, the second one between
\* slots that were already linked, so that ring order and slot order differ.
C17_Witness ==
    /\ IsInsert
    /\ call.ret_llg.kind = "id"
    /\ LLG_len(llg) >= LLG_len(pre_llg) + 2
    /\ Len(pre_llg.lst) > call.a1
    /\ \E i \in 1..Len(llg.index_next) :
           i < Len(pre_llg.lst) /\ llg.index_next[i] # i % Len(llg.lst)
    /\ llg.count >= 2

\* C18: runs of active TEs stay whole.  The positions owned by each id in
\* active_tes() form one contiguous run in rendering order that does not wrap
\* past the last index, its length is the length the TE was inserted with,
\* and so the count of all positions owned by te (ListGenome.copy_te) equals
\* the run length counted along the ring (LinkedListGenome.copy_te).
WholeRuns(owners, active) ==
    LET own == owners
    IN \A te \in Range(active) :
           LET p == FirstIndex(own, te)
               L == CountOf(own, te)
           IN /\ p >= 0
              /\ L >= 1
              /\ p + L <= Len(own)
              /\ \A j \in 0..(L - 1) : At(own, p + j) = te
              /\ RunLength(own, te) = L

\* The length a TE has is the length it was created with: the length argument
\* of insert_te, the run of the source for copy_te, and unchanged afterwards.
LengthKept(oldOwners, oldActive, newOwners, newActive, ret) ==
    LET oldOwn == oldOwners
        newOwn == newOwners
    IN /\ ret.kind = "id" =>
              CountOf(newOwn, ret.val) =
                  IF IsInsert THEN call.a2 ELSE CountOf(oldOwn, call.a1)
       /\ \A te \in Range(oldActive) \cap Range(newActive) :
              CountOf(newOwn, te) = CountOf(oldOwn, te)

C18_LG_WholeRuns ==
    /\ WholeRuns(LG_owners(lg), LG_active_tes(lg))
    /\ LengthKept(LG_owners(pre_lg), LG_active_tes(pre_lg),
                  LG_owners(lg), LG_active_tes(lg), call.ret_lg)

C18_LLG_WholeRuns ==
    /\ WholeRuns(LLG_owners(llg), LLG_active_tes(llg))
    /\ LengthKept(LLG_owners(pre_llg), LLG_active_tes(pre_llg),
                  LLG_owners(llg), LLG_active_tes(llg), call.ret_llg)

C18_WholeRuns == C18_LG_WholeRuns /\ C18_LLG_WholeRuns

\* A TE of two positions is still active and whole on each genome after a
\* later insertion in front of it moved it up.
MovedWhole(oldOwn, oldActive, newOwn, newActive) ==
    \E te \in Range(oldActive) \cap Range(newActive) :
        /\ CountOf(newOwn, te) = 2
        /\ FirstIndex(newOwn, te) > FirstIndex(oldOwn, te)

C18_Witness ==
    /\ call.ret_lg.kind = "id"
    /\ call.ret_llg.kind = "id"
    /\ MovedWhole(LG_owners(pre_lg), LG_active_tes(pre_lg),
                  LG_owners(lg), LG_active_tes(lg))
    /\ MovedWhole(LLG_owners(pre_llg), LLG_active_tes(pre_llg),
                  LLG_owners(llg), LLG_active_tes(llg))

====
